---- MODULE Spec2Model ----
(***************************************************************************)
(* File_Validation.py: a script that loads a source CSV, materialises the  *)
(* target CSV from it when the target is absent, standardises the column   *)
(* names of both frames, compares schema, row count, column count, row     *)
(* presence (left merge with indicator) and duplicate rows, and writes     *)
(* either a five-row discrepancy report or a one-row no-discrepancy        *)
(* report, plus the rows missing in the target.                            *)
(*                                                                         *)
(* Strings that the script transforms (column names) are sequences of      *)
(* one-character strings; rendered texts are sequences of string pieces.   *)
(* A CSV file is a record of its header line and its data records; a       *)
(* DataFrame is a record of its column labels and its rows.  The header    *)
(* names of a file are distinct (read_csv renames repeated ones) and all   *)
(* cells are of one dtype, so that pd.merge never rejects a key for its    *)
(* type.  A to_csv call either writes its file or raises OSError.          *)
(***************************************************************************)
EXTENDS Integers, Sequences, FiniteSets, TLC

VARIABLES
    fs,                      \* the five paths of config and the file at each
    pc,                      \* position of the script
    exc,                     \* the exception being propagated, "" if none
    log,                     \* the logger's records, in order
    source_df, target_df,    \* the two loaded frames
    common_columns, missing_in_target, missing_in_source,
    rows_missing_in_target,  \* frame of the left_only rows
    duplicate_count

vars == <<fs, pc, exc, log, source_df, target_df, common_columns,
          missing_in_target, missing_in_source, rows_missing_in_target,
          duplicate_count>>

-----------------------------------------------------------------------------
(* Bounds of the checked input space *)

MaxSourceRows == 2

MaxTargetRows == 3

CellValues == {0, 1}

\* header names as they stand in the files
NameID   == <<"I", "D">>
Nameid   == <<"i", "d">>
NameA_B  == <<"A", " ", "b">>
Namea_b  == <<"a", "_", "b">>
NameX    == <<"X">>
Namex    == <<"x">>

-----------------------------------------------------------------------------
(* Sequence helpers *)

Range(s) == {s[i] : i \in DOMAIN s}

IsInjective(s) == \A i, j \in DOMAIN s : s[i] = s[j] => i = j

\* every listing of a finite set: the orders in which list(set) can iterate
Listings(S) == {p \in [1..Cardinality(S) -> S] : IsInjective(p)}

RECURSIVE Flatten(_)
Flatten(ss) == IF ss = <<>> THEN <<>> ELSE Head(ss) \o Flatten(Tail(ss))

Indices(n) == [i \in 1..n |-> i]

-----------------------------------------------------------------------------
(* str and list operations of Python used by the script *)

\* str.lower() on one character
LowerChar(c) ==
    CASE c = "A" -> "a"
      [] c = "B" -> "b"
      [] c = "D" -> "d"
      [] c = "I" -> "i"
      [] c = "X" -> "x"
      [] OTHER   -> c

\* c.lower()
Lower(name) == [i \in DOMAIN name |-> LowerChar(name[i])]

\* c.replace(" ", "_")
ReplaceSpaces(name) == [i \in DOMAIN name |-> IF name[i] = " " THEN "_" ELSE name[i]]

\* [c.lower().replace(" ", "_") for c in df.columns]
Standardize(columns) == [i \in DOMAIN columns |-> ReplaceSpaces(Lower(columns[i]))]

Digit(d) ==
    CASE d = 0 -> "0" [] d = 1 -> "1" [] d = 2 -> "2" [] d = 3 -> "3" [] d = 4 -> "4"
      [] d = 5 -> "5" [] d = 6 -> "6" [] d = 7 -> "7" [] d = 8 -> "8" [] d = 9 -> "9"

RECURSIVE Str(_)
\* the decimal rendering of a natural number inside an f-string
Str(n) == IF n < 10 THEN <<Digit(n)>> ELSE Str(n \div 10) \o <<Digit(n % 10)>>

RECURSIVE Join(_, _)
\* sep.join(names)
Join(sep, names) ==
    IF names = <<>> THEN <<>>
    ELSE IF Len(names) = 1 THEN Head(names)
    ELSE Head(names) \o sep \o Join(sep, Tail(names))

-----------------------------------------------------------------------------
(* Files and frames *)

Absent == [exists |-> FALSE, header |-> <<>>, records |-> <<>>]

\* the paths of config
Paths == {"source_path", "target_path", "discrepancy_report",
          "no_discrepancy_report", "mismatch_records"}

NoFrame == [columns |-> <<>>, rows |-> <<>>]

\* os.path.isfile(path)
file_exists(path) == fs[path].exists

\* pd.read_csv raises EmptyDataError on a file with no columns to parse
ReadCsvRaises(file) == file.header = <<>>

\* pd.read_csv: the header line gives the labels, every further line a row
ReadCsv(file) == [columns |-> file.header, rows |-> file.records]

\* df.to_csv(path) with the default index=True: a leading index column, which
\* read_csv labels "Unnamed: 0"
ToCsv_WithIndex(df) ==
    [exists  |-> TRUE,
     header  |-> << <<"U", "n", "n", "a", "m", "e", "d", ":", " ", "0">> >> \o df.columns,
     records |-> [r \in DOMAIN df.rows |-> <<r - 1>> \o df.rows[r]]]

\* df.to_csv(path, index=False): the labels as header line, one record per row
ToCsv(df) == [exists |-> TRUE, header |-> df.columns, records |-> df.rows]

\* positions of the columns labelled c (more than one when labels collide)
Locate(df, c) == SelectSeq(Indices(Len(df.columns)), LAMBDA i : df.columns[i] = c)

\* df[cols]: the columns labelled by cols, in the order of cols
Select(df, cols) ==
    LET at == Flatten([k \in DOMAIN cols |-> Locate(df, cols[k])])
    IN  [columns |-> [k \in DOMAIN at |-> df.columns[at[k]]],
         rows    |-> [r \in DOMAIN df.rows |-> [k \in DOMAIN at |-> df.rows[r][at[k]]]]]

\* the join keys pd.merge takes when no on= is given: the labels in both frames
MergeKeys(left, right) == Range(left.columns) \cap Range(right.columns)

\* pd.merge raises MergeError when there is no common column or when the
\* common labels are not unique in either frame
MergeRaises(left, right) ==
    LET keys == MergeKeys(left, right)
    IN  \/ keys = {}
        \/ \E c \in keys : Len(Locate(left, c)) > 1 \/ Len(Locate(right, c)) > 1

\* the value of row r of df under label c (labels unique)
Cell(df, r, c) == df.rows[r][Locate(df, c)[1]]

\* a merge on one of the common columns only
KeysEqual_OneKey(left, i, right, j, keys) ==
    LET c == CHOOSE k \in keys : TRUE
    IN  Cell(left, i, c) = Cell(right, j, c)

\* rows i of left and j of right agree on every key
KeysEqual(left, i, right, j, keys) ==
    \A c \in keys : Cell(left, i, c) = Cell(right, j, c)

\* pd.merge(left, right, how='left', indicator=True) for frames whose labels
\* are all keys: per left row, in left order, one output row per matching
\* right row marked "both", or one row marked "left_only" when none matches
MergeLeft(left, right) ==
    LET keys == MergeKeys(left, right)
        Matches(i) == SelectSeq(Indices(Len(right.rows)),
                                LAMBDA j : KeysEqual(left, i, right, j, keys))
        Out(i) == IF Matches(i) = <<>>
                  THEN <<[row |-> left.rows[i], merge |-> "left_only"]>>
                  ELSE [k \in DOMAIN Matches(i) |->
                            [row |-> left.rows[i], merge |-> "both"]]
    IN  [columns |-> left.columns,
         rows    |-> Flatten([i \in DOMAIN left.rows |-> Out(i)])]

\* .query('_merge == "left_only"').drop(columns=['_merge'])
LeftOnly(merged) ==
    LET kept == SelectSeq(merged.rows, LAMBDA m : m.merge = "left_only")
    IN  [columns |-> merged.columns, rows |-> [k \in DOMAIN kept |-> kept[k].row]]

\* df.duplicated(subset=cols) with the default keep='first': only the later
\* rows of a group are marked
Duplicated_KeepFirst(df, cols) ==
    LET sub == Select(df, cols)
    IN  [i \in DOMAIN df.rows |->
            \E j \in DOMAIN df.rows : j < i /\ sub.rows[j] = sub.rows[i]]

\* df.duplicated(subset=cols, keep=False): per row, whether another row of
\* df has the same values under cols
Duplicated(df, cols) ==
    LET sub == Select(df, cols)
    IN  [i \in DOMAIN df.rows |->
            \E j \in DOMAIN df.rows : j # i /\ sub.rows[j] = sub.rows[i]]

\* .sum() of a boolean series
Sum(flags) == Cardinality({i \in DOMAIN flags : flags[i]})

-----------------------------------------------------------------------------
(* The input space: the files found at source_path and target_path *)

SourceHeaders == {<<NameID>>, <<NameA_B>>, <<NameID, NameA_B>>, <<NameID, Nameid>>}

TargetHeaders == {<<Nameid>>, <<Namea_b, Nameid>>, <<Nameid, Namex>>}

\* all tables of up to n records under header h
Tables(h, n) ==
    UNION {[1..m -> [1..Len(h) -> CellValues]] : m \in 0..n}

CsvFiles(headers, n) ==
    UNION {{[exists |-> TRUE, header |-> h, records |-> rs] : rs \in Tables(h, n)}
           : h \in headers}

\* a file of zero bytes
EmptyFile == [exists |-> TRUE, header |-> <<>>, records |-> <<>>]

SourceFiles == CsvFiles(SourceHeaders, MaxSourceRows) \cup {Absent, EmptyFile}

TargetFiles == CsvFiles(TargetHeaders, MaxTargetRows) \cup {Absent, EmptyFile}

-----------------------------------------------------------------------------
(* The script *)

Init ==
    /\ \E s \in SourceFiles, t \in TargetFiles :
          fs = [p \in Paths |-> CASE p = "source_path" -> s
                                  [] p = "target_path" -> t
                                  [] OTHER -> Absent]
    /\ pc = "check_source"
    /\ exc = ""
    /\ log = <<>>
    /\ source_df = NoFrame
    /\ target_df = NoFrame
    /\ common_columns = <<>>
    /\ missing_in_target = <<>>
    /\ missing_in_source = <<>>
    /\ rows_missing_in_target = NoFrame
    /\ duplicate_count = 0

Raise(e) == pc' = "except" /\ exc' = e

Info(msg) == log' = Append(log, msg)

\* lines 22-23
CheckSource ==
    /\ pc = "check_source"
    /\ IF ~file_exists("source_path")
       THEN Raise("FileNotFoundError")
       ELSE pc' = "load_source" /\ exc' = exc
    /\ UNCHANGED <<fs, log, source_df, target_df, common_columns, missing_in_target,
                   missing_in_source, rows_missing_in_target, duplicate_count>>

\* lines 26-27
LoadSource ==
    /\ pc = "load_source"
    /\ IF ReadCsvRaises(fs["source_path"])
       THEN Raise("EmptyDataError") /\ UNCHANGED <<source_df, log>>
       ELSE /\ source_df' = ReadCsv(fs["source_path"])
            /\ Info("Source file loaded successfully.")
            /\ pc' = "ensure_target" /\ exc' = exc
    /\ UNCHANGED <<fs, target_df, common_columns, missing_in_target,
                   missing_in_source, rows_missing_in_target, duplicate_count>>

\* lines 30-32; to_csv either writes the file or raises OSError
EnsureTarget ==
    /\ pc = "ensure_target"
    /\ IF file_exists("target_path")
       THEN pc' = "load_target" /\ UNCHANGED <<fs, exc, log>>
       ELSE \/ /\ fs' = [fs EXCEPT !["target_path"] = ToCsv(source_df)]
               /\ Info("File successfully written to target.")
               /\ pc' = "load_target" /\ exc' = exc
            \/ Raise("OSError") /\ UNCHANGED <<fs, log>>
    /\ UNCHANGED <<source_df, target_df, common_columns, missing_in_target,
                   missing_in_source, rows_missing_in_target, duplicate_count>>

\* lines 35-36
LoadTarget ==
    /\ pc = "load_target"
    /\ IF ReadCsvRaises(fs["target_path"])
       THEN Raise("EmptyDataError") /\ UNCHANGED <<target_df, log>>
       ELSE /\ target_df' = ReadCsv(fs["target_path"])
            /\ Info("Target file loaded successfully.")
            /\ pc' = "standardize" /\ exc' = exc
    /\ UNCHANGED <<fs, source_df, common_columns, missing_in_target,
                   missing_in_source, rows_missing_in_target, duplicate_count>>

\* lines 39-40
StandardizeColumns ==
    /\ pc = "standardize"
    /\ source_df' = [source_df EXCEPT !.columns = Standardize(source_df.columns)]
    /\ target_df' = [target_df EXCEPT !.columns = Standardize(target_df.columns)]
    /\ pc' = "schema"
    /\ UNCHANGED <<fs, exc, log, common_columns, missing_in_target,
                   missing_in_source, rows_missing_in_target, duplicate_count>>

\* lines 43-44
source_cols == Range(source_df.columns)
target_cols == Range(target_df.columns)

\* line 46
CommonSet == source_cols \cap target_cols
\* line 47
MissingInTargetSet == source_cols \ target_cols
\* line 48 with the operands of line 47
MissingInSourceSet_Swapped == source_cols \ target_cols

\* line 48
MissingInSourceSet == target_cols \ source_cols

\* lines 46-52; list(set) iterates in an order that string hashing fixes per process
SchemaDiff ==
    /\ pc = "schema"
    /\ common_columns' \in Listings(CommonSet)
    /\ missing_in_target' \in Listings(MissingInTargetSet)
    /\ missing_in_source' \in Listings(MissingInSourceSet)
    /\ IF missing_in_target' # <<>> \/ missing_in_source' # <<>>
       THEN log' = log \o <<"Columns missing in target", "Columns missing in source">>
       ELSE log' = log
    /\ pc' = "missing_rows"
    /\ UNCHANGED <<fs, exc, source_df, target_df, rows_missing_in_target, duplicate_count>>

\* line 54
schema_mismatch == missing_in_target \o missing_in_source

\* lines 57-59
source_row_count == Len(source_df.rows)
target_row_count == Len(target_df.rows)
row_count_mismatch == source_row_count # target_row_count

\* line 62
column_count_mismatch == Len(source_df.columns) # Len(target_df.columns)

\* lines 65-66
MissingRowsFrame ==
    LeftOnly(MergeLeft(Select(source_df, common_columns),
                       Select(target_df, common_columns)))

\* lines 65-67
FindMissingRows ==
    /\ pc = "missing_rows"
    /\ IF MergeRaises(Select(source_df, common_columns), Select(target_df, common_columns))
       THEN Raise("MergeError") /\ UNCHANGED rows_missing_in_target
       ELSE /\ rows_missing_in_target' = MissingRowsFrame
            /\ pc' = "duplicates" /\ exc' = exc
    /\ UNCHANGED <<fs, log, source_df, target_df, common_columns, missing_in_target,
                   missing_in_source, duplicate_count>>

\* line 67
missing_count == Len(rows_missing_in_target.rows)

\* line 70
DuplicateCount == Sum(Duplicated(target_df, common_columns))

\* lines 70-71
DetectDuplicates ==
    /\ pc = "duplicates"
    /\ duplicate_count' = DuplicateCount
    /\ pc' = "save_mismatch"
    /\ UNCHANGED <<fs, exc, log, source_df, target_df, common_columns, missing_in_target,
                   missing_in_source, rows_missing_in_target>>

\* line 71
has_duplicates == duplicate_count > 0

\* line 74 without the test
ShouldSaveMismatch_Always == missing_count >= 0

\* line 74
ShouldSaveMismatch == missing_count > 0

\* lines 74-76; to_csv either writes the file or raises OSError
SaveMismatch ==
    /\ pc = "save_mismatch"
    /\ IF ShouldSaveMismatch
       THEN \/ /\ fs' = [fs EXCEPT !["mismatch_records"] = ToCsv(rows_missing_in_target)]
               /\ Info("Mismatched records saved")
               /\ pc' = "report" /\ exc' = exc
            \/ Raise("OSError") /\ UNCHANGED <<fs, log>>
       ELSE pc' = "report" /\ UNCHANGED <<fs, exc, log>>
    /\ UNCHANGED <<source_df, target_df, common_columns, missing_in_target,
                   missing_in_source, rows_missing_in_target, duplicate_count>>

NoIssue == <<"No Issue">>

\* line 79 without its last operand
DiscrepanciesFound_NoDuplicates ==
    \/ schema_mismatch # <<>>
    \/ row_count_mismatch
    \/ column_count_mismatch
    \/ missing_count > 0

\* line 79
DiscrepanciesFound ==
    \/ schema_mismatch # <<>>
    \/ row_count_mismatch
    \/ column_count_mismatch
    \/ missing_count > 0
    \/ has_duplicates

\* line 83
SchemaEntry ==
    IF schema_mismatch # <<>> THEN Join(<<",", " ">>, schema_mismatch) ELSE NoIssue
\* line 84
RowCountEntry ==
    IF row_count_mismatch
    THEN <<"Source: ">> \o Str(source_row_count) \o <<", Target: ">> \o Str(target_row_count)
    ELSE NoIssue
\* line 85
ColumnCountEntry ==
    IF column_count_mismatch
    THEN <<"Source: ">> \o Str(Len(source_df.columns))
             \o <<", Target: ">> \o Str(Len(target_df.columns))
    ELSE NoIssue
\* line 86 guarded by the condition of line 84
SourceMinusTargetEntry_RowCount ==
    IF row_count_mismatch
    THEN <<"Rows missing in Target: ">> \o Str(missing_count)
    ELSE NoIssue

\* line 86
SourceMinusTargetEntry ==
    IF missing_count > 0
    THEN <<"Rows missing in Target: ">> \o Str(missing_count)
    ELSE NoIssue
\* line 87
DuplicateEntry ==
    IF has_duplicates THEN <<"Duplicate count: ">> \o Str(duplicate_count) ELSE NoIssue

\* lines 82-90
discrepancy_df ==
    [columns |-> <<"Validation", "Discrepancy">>,
     rows    |-> << <<"Schema Mismatch", SchemaEntry>>,
                    <<"Row Count Mismatch", RowCountEntry>>,
                    <<"Column Count Mismatch", ColumnCountEntry>>,
                    <<"Source Minus Target", SourceMinusTargetEntry>>,
                    <<"Duplicate Rows in Target", DuplicateEntry>> >>]

\* line 95
no_discrepancy_df ==
    [columns |-> <<"Validation", "Message">>,
     rows    |-> << <<"No Discrepancy", "No discrepancies found. Data is consistent.">> >>]

\* lines 79-97; to_csv either writes the file or raises OSError
GenerateReport ==
    /\ pc = "report"
    /\ IF DiscrepanciesFound
       THEN \/ /\ fs' = [fs EXCEPT !["discrepancy_report"] = ToCsv(discrepancy_df)]
               /\ log' = log \o <<"Discrepancies found. Generating report...",
                                  "Discrepancy report saved">>
               /\ pc' = "done" /\ exc' = exc
            \/ /\ log' = Append(log, "Discrepancies found. Generating report...")
               /\ Raise("OSError") /\ UNCHANGED fs
       ELSE \/ /\ fs' = [fs EXCEPT !["no_discrepancy_report"] = ToCsv(no_discrepancy_df)]
               /\ log' = log \o <<"No discrepancies found. Data is consistent.",
                                  "No discrepancy report saved">>
               /\ pc' = "done" /\ exc' = exc
            \/ /\ log' = Append(log, "No discrepancies found. Data is consistent.")
               /\ Raise("OSError") /\ UNCHANGED fs
    /\ UNCHANGED <<source_df, target_df, common_columns, missing_in_target,
                   missing_in_source, rows_missing_in_target, duplicate_count>>

\* lines 99-100
ExceptFileNotFound ==
    /\ pc = "except"
    /\ exc = "FileNotFoundError"
    /\ Info("File Not Found")
    /\ pc' = "failed"
    /\ UNCHANGED <<fs, exc, source_df, target_df, common_columns, missing_in_target,
                   missing_in_source, rows_missing_in_target, duplicate_count>>

\* lines 101-102
ExceptException ==
    /\ pc = "except"
    /\ exc # "FileNotFoundError"
    /\ Info("Unexpected error")
    /\ pc' = "failed"
    /\ UNCHANGED <<fs, exc, source_df, target_df, common_columns, missing_in_target,
                   missing_in_source, rows_missing_in_target, duplicate_count>>

Next ==
    \/ CheckSource
    \/ LoadSource
    \/ EnsureTarget
    \/ LoadTarget
    \/ StandardizeColumns
    \/ SchemaDiff
    \/ FindMissingRows
    \/ DetectDuplicates
    \/ SaveMismatch
    \/ GenerateReport
    \/ ExceptFileNotFound
    \/ ExceptException

Spec == Init /\ [][Next]_vars

-----------------------------------------------------------------------------
(* Repeated invocations of the script over the same files *)

MaxRerunRows == 1

RerunSourceHeaders == {<<NameID, NameA_B>>, <<NameX, NameA_B, NameID>>}

RerunTargetHeaders == {<<Nameid>>, <<Namea_b, Nameid>>}

InitRerun ==
    /\ \E s \in CsvFiles(RerunSourceHeaders, MaxRerunRows) \cup {Absent, EmptyFile},
          t \in CsvFiles(RerunTargetHeaders, MaxRerunRows) \cup {Absent, EmptyFile} :
          fs = [p \in Paths |-> CASE p = "source_path" -> s
                                  [] p = "target_path" -> t
                                  [] OTHER -> Absent]
    /\ pc = "check_source"
    /\ exc = ""
    /\ log = <<>>
    /\ source_df = NoFrame
    /\ target_df = NoFrame
    /\ common_columns = <<>>
    /\ missing_in_target = <<>>
    /\ missing_in_source = <<>>
    /\ rows_missing_in_target = NoFrame
    /\ duplicate_count = 0

\* the script is started again: a fresh process over the files left on disk
Restart ==
    /\ pc \in {"done", "failed"}
    /\ pc' = "check_source"
    /\ exc' = ""
    /\ log' = <<>>
    /\ source_df' = NoFrame
    /\ target_df' = NoFrame
    /\ common_columns' = <<>>
    /\ missing_in_target' = <<>>
    /\ missing_in_source' = <<>>
    /\ rows_missing_in_target' = NoFrame
    /\ duplicate_count' = 0
    /\ UNCHANGED fs

NextRerun == Next \/ Restart

SpecRerun == InitRerun /\ [][NextRerun]_vars

-----------------------------------------------------------------------------
(* Vocabulary of the properties *)

InLog(msg) == \E i \in DOMAIN log : log[i] = msg

Completed == pc = "done"

\* the schema diff of lines 46-48 has been computed
SchemaCompared ==
    \/ pc \in {"missing_rows", "duplicates", "save_mismatch", "report", "done"}
    \/ exc = "MergeError"

\* the merge of lines 65-66 has returned
MissingRowsComputed == pc \in {"duplicates", "save_mismatch", "report", "done"}

\* line 70 has been executed
DuplicatesComputed == pc \in {"save_mismatch", "report", "done"}

\* lines 74-76 have been passed without an exception
PastSave ==
    \/ pc \in {"report", "done"}
    \/ InLog("Discrepancies found. Generating report...")
    \/ InLog("No discrepancies found. Data is consistent.")

\* the value of row i of df under the label c
ValueAt(df, i, c) == df.rows[i][CHOOSE k \in DOMAIN df.columns : df.columns[k] = c]

\* row i of df restricted to the common columns, in their order
OnCommon(df, i) ==
    [k \in DOMAIN common_columns |-> ValueAt(df, i, common_columns[k])]

\* some target row equals source row i on every common column
HasMatch(i) ==
    \E j \in DOMAIN target_df.rows :
        \A c \in Range(common_columns) : ValueAt(source_df, i, c) = ValueAt(target_df, j, c)

\* the source rows without a match, in source order
Unmatched == SelectSeq(Indices(Len(source_df.rows)), LAMBDA i : ~HasMatch(i))

\* the number of target rows sharing row j's values on the common columns
GroupSize(j) ==
    Cardinality({k \in DOMAIN target_df.rows : OnCommon(target_df, k) = OnCommon(target_df, j)})

Written(path) == fs[path].exists

Entry(k) == fs["discrepancy_report"].records[k][2]

AnyCheckFails ==
    \/ missing_in_target # <<>>
    \/ missing_in_source # <<>>
    \/ Len(source_df.rows) # Len(target_df.rows)
    \/ Len(source_df.columns) # Len(target_df.columns)
    \/ Len(rows_missing_in_target.rows) > 0
    \/ duplicate_count > 0

-----------------------------------------------------------------------------
(* Properties *)

\* C1: in a completed run the five-row discrepancy report is written exactly
\* when the schema diff is non-empty, the row counts differ, the column counts
\* differ, rows are missing or the target has duplicates, and the one-row
\* no-discrepancy report exactly when none of these holds; no run writes both,
\* and a completed run writes one of them.
C1_ReportIffDiscrepancy ==
    /\ ~(Written("discrepancy_report") /\ Written("no_discrepancy_report"))
    /\ Completed =>
          /\ Written("discrepancy_report") <=> AnyCheckFails
          /\ Written("no_discrepancy_report") <=> ~AnyCheckFails
          /\ Written("discrepancy_report") \/ Written("no_discrepancy_report")
          /\ Written("discrepancy_report") =>
                Len(fs["discrepancy_report"].records) = 5
          /\ Written("no_discrepancy_report") =>
                Len(fs["no_discrepancy_report"].records) = 1

\* a completed run in which duplicates in the target are the only finding
C1_Witness ==
    /\ Completed
    /\ Written("discrepancy_report")
    /\ duplicate_count > 0
    /\ schema_mismatch = <<>>
    /\ ~row_count_mismatch
    /\ ~column_count_mismatch
    /\ missing_count = 0

\* C2: once the merge has returned (so the common columns are not empty),
\* rows_missing_in_target holds, under the common columns, exactly the source
\* rows for which no target row is equal on all common columns, once per
\* occurrence in the source and in source order, and missing_count is its length.
C2_MissingRows ==
    MissingRowsComputed =>
       /\ common_columns # <<>>
       /\ rows_missing_in_target.columns = common_columns
       /\ rows_missing_in_target.rows =
             [k \in DOMAIN Unmatched |-> OnCommon(source_df, Unmatched[k])]
       /\ missing_count = Len(Unmatched)

\* a source with a column outside the common ones holds twice, on the common
\* columns, a row that no row of a non-empty target equals: the result is
\* that row, twice
C2_Witness ==
    /\ MissingRowsComputed
    /\ Len(source_df.columns) > Len(common_columns)
    /\ Len(rows_missing_in_target.rows) = 2
    /\ rows_missing_in_target.rows[1] = rows_missing_in_target.rows[2]
    /\ Len(target_df.rows) > 0

\* C3: duplicate_count is the number of target rows whose values on the common
\* columns occur in more than one target row (all target rows minus those in
\* groups of one), has_duplicates holds exactly when there is such a row, and
\* target columns outside the common columns play no part.
C3_DuplicateCount ==
    DuplicatesComputed =>
       /\ duplicate_count =
             Len(target_df.rows)
               - Cardinality({j \in DOMAIN target_df.rows : GroupSize(j) = 1})
       /\ has_duplicates <=> \E j \in DOMAIN target_df.rows : GroupSize(j) > 1

\* target rows [r1, r1, r2] on the common columns, the two copies of r1
\* differing in a column outside the common columns: the count is 2
C3_Witness ==
    /\ DuplicatesComputed
    /\ Len(target_df.rows) = 3
    /\ Len(target_df.columns) > Len(common_columns)
    /\ OnCommon(target_df, 1) = OnCommon(target_df, 2)
    /\ target_df.rows[1] # target_df.rows[2]
    /\ OnCommon(target_df, 3) # OnCommon(target_df, 1)
    /\ duplicate_count = 2

\* C4: common_columns, missing_in_target and missing_in_source are pairwise
\* disjoint, and together they are the standardized column names of the source
\* file and of the target file.
C4_SchemaPartition ==
    SchemaCompared =>
       LET common == Range(common_columns)
           inTarget == Range(missing_in_target)
           inSource == Range(missing_in_source)
       IN  /\ common \cap inTarget = {}
           /\ common \cap inSource = {}
           /\ inTarget \cap inSource = {}
           /\ common \cup inTarget \cup inSource =
                 Range(Standardize(fs["source_path"].header))
                   \cup Range(Standardize(fs["target_path"].header))
           /\ \A c \in common : c \in Range(Standardize(fs["source_path"].header))
                             /\ c \in Range(Standardize(fs["target_path"].header))

\* a diff in which none of the three parts is empty
C4_Witness ==
    /\ SchemaCompared
    /\ common_columns # <<>>
    /\ missing_in_target # <<>>
    /\ missing_in_source # <<>>

\* C5: a run that ends in one of the two handlers has written none of the
\* discrepancy report, the no-discrepancy report and the mismatch records.
C5_NoArtifactOnFailure ==
    pc = "failed" =>
       /\ ~Written("discrepancy_report")
       /\ ~Written("no_discrepancy_report")
       /\ ~Written("mismatch_records")

\* C6: a run over the same source and target as an earlier run rewrites the
\* discrepancy report and the mismatch records with the same content.
C6_Deterministic ==
    [][/\ (Written("discrepancy_report") /\ fs'["discrepancy_report"].exists)
              => fs'["discrepancy_report"] = fs["discrepancy_report"]
       /\ (Written("mismatch_records") /\ fs'["mismatch_records"].exists)
              => fs'["mismatch_records"] = fs["mismatch_records"]]_vars

\* C7: when the two frames share no standardized column name, the run
\* completes, no source row counts as missing and the discrepancy report is
\* written.
C7_EmptyCommonCompletes ==
    (SchemaCompared /\ common_columns = <<>> /\ pc \in {"done", "failed"}) =>
       /\ Completed
       /\ rows_missing_in_target.rows = <<>>
       /\ Written("discrepancy_report")

\* C8: a written discrepancy report has the five entries Schema Mismatch,
\* Row Count Mismatch, Column Count Mismatch, Source Minus Target, Duplicate
\* Rows in Target in this order; an entry reads "No Issue" exactly when its
\* check passed, and at least one entry does not.
C8_FiveEntries ==
    Written("discrepancy_report") =>
       LET report == fs["discrepancy_report"]
       IN  /\ report.header = <<"Validation", "Discrepancy">>
           /\ [k \in DOMAIN report.records |-> report.records[k][1]] =
                 <<"Schema Mismatch", "Row Count Mismatch", "Column Count Mismatch",
                   "Source Minus Target", "Duplicate Rows in Target">>
           /\ Entry(1) = NoIssue <=> (missing_in_target = <<>> /\ missing_in_source = <<>>)
           /\ Entry(2) = NoIssue <=> Len(source_df.rows) = Len(target_df.rows)
           /\ Entry(3) = NoIssue <=> Len(source_df.columns) = Len(target_df.columns)
           /\ Entry(4) = NoIssue <=> Len(rows_missing_in_target.rows) = 0
           /\ Entry(5) = NoIssue <=> duplicate_count = 0
           /\ \E k \in 1..5 : Entry(k) # NoIssue

\* a report in which rows are missing although schema, row count and column
\* count agree
C8_Witness ==
    /\ Written("discrepancy_report")
    /\ Entry(1) = NoIssue
    /\ Entry(2) = NoIssue
    /\ Entry(3) = NoIssue
    /\ Entry(4) # NoIssue

\* C9: the mismatch records are written only when missing_count > 0, and once
\* lines 74-76 have been passed they are written whenever missing_count > 0;
\* they are written before the discrepancy report; a completed run that wrote
\* them wrote the discrepancy report, and no run writes them together with
\* the no-discrepancy report.
C9_MismatchRecords ==
    /\ Written("mismatch_records") => missing_count > 0
    /\ (PastSave /\ missing_count > 0) => Written("mismatch_records")
    /\ \A i, j \in DOMAIN log :
          (log[i] = "Mismatched records saved" /\ log[j] = "Discrepancy report saved")
             => i < j
    /\ (Written("discrepancy_report") /\ missing_count > 0)
          => InLog("Mismatched records saved")
    /\ (Completed /\ Written("mismatch_records")) => Written("discrepancy_report")
    /\ ~(Written("mismatch_records") /\ Written("no_discrepancy_report"))

\* a completed run that wrote the mismatch records and then the discrepancy report
C9_Witness ==
    /\ Completed
    /\ Written("mismatch_records")
    /\ Written("discrepancy_report")
    /\ fs["mismatch_records"].records = rows_missing_in_target.rows

\* the target was written by this run
TargetCreated == InLog("File successfully written to target.")

\* no two records of the file agree on all columns
NoRepeatedRecord(file) ==
    \A i, j \in DOMAIN file.records : file.records[i] = file.records[j] => i = j

\* C10: a run that finds the source but no target writes the target as a copy
\* of the source; in that run the schema diff is empty, row counts and column
\* counts agree and no row is missing, and when it completes it writes the
\* no-discrepancy report exactly when no two source rows agree on all columns,
\* and otherwise a discrepancy report whose only finding is the duplicates.
C10_TargetFromSource ==
    TargetCreated =>
       /\ fs["target_path"] = fs["source_path"]
       /\ SchemaCompared =>
             /\ missing_in_target = <<>>
             /\ missing_in_source = <<>>
             /\ Len(source_df.rows) = Len(target_df.rows)
             /\ Len(source_df.columns) = Len(target_df.columns)
       /\ MissingRowsComputed => rows_missing_in_target.rows = <<>>
       /\ Completed =>
             /\ Written("no_discrepancy_report") <=> NoRepeatedRecord(fs["source_path"])
             /\ Written("discrepancy_report") <=> ~NoRepeatedRecord(fs["source_path"])
             /\ Written("discrepancy_report") =>
                   /\ \A k \in 1..4 : Entry(k) = NoIssue
                   /\ Entry(5) # NoIssue

\* a completed run that created the target from a source with a repeated row
C10_Witness ==
    /\ TargetCreated
    /\ Completed
    /\ Written("discrepancy_report")
    /\ ~NoRepeatedRecord(fs["source_path"])

====
